---- MODULE Spec2Model ----
(***************************************************************************)
(* A model of gbs.py: the pipeline driver (main), the search orchestrator  *)
(* (get_google_maps_data), the place enricher (get_place_details) run by   *)
(* a thread pool, the rate limiter every provider call passes through,     *)
(* persistence (save_to_file) and remote sync (add_to_supabase).           *)
(*                                                                         *)
(* Thread 0 is the main thread; thread i >= 1 runs the enrichment of       *)
(* results[i].  Time is a discrete clock of TicksPerSecond ticks a second. *)
(* The provider, the web, the file system and the table store are the      *)
(* environment: each of their answers is chosen nondeterministically.      *)
(***************************************************************************)
EXTENDS Integers, Sequences, FiniteSets, TLC

----------------------------------------------------------------------------
(* Bounds of the model *)

\* the largest NUM_RESULTS the environment sets
MaxCap == 2
\* the most results the provider returns on one search page
PageSize == 2
\* the most search pages the provider serves (the last one carries no token)
MaxPages == 2
\* the clock stops ticking here
MaxTime == 2
\* clock ticks per second
TicksPerSecond == 1
\* max_calls of the limiter instance: gbs.py line 22 sets 10; the model builds
\* RateLimiter(RATE_LIMIT, RATE_LIMIT_PERIOD) with a limit that MaxCap
\* enrichment calls can reach
RATE_LIMIT == 2
\* max_workers of the pool: gbs.py line 137 sets 10; scaled with RATE_LIMIT
MAX_WORKERS == 2

(* Program constants *)

\* seconds
RATE_LIMIT_PERIOD == 1
\* time.sleep(2) before a search call that carries a page token
PAGE_TOKEN_DELAY == 2

----------------------------------------------------------------------------
(* Values *)

\* Python's None
None == "<None>"

\* Python truthiness of a string-or-None value
Truthy(v) == v # None /\ v # ""

Digits == <<"0", "1", "2", "3", "4", "5", "6", "7", "8", "9">>

\* the strings NUM_RESULTS may hold: a negative, 0..MaxCap, and a non-number
\* (the default "100" of an unset option lies beyond MaxCap)
NumStrings == {"-1", "many"} \cup {Digits[n + 1] : n \in 0 .. MaxCap}

RadiusStrings == {"50000", "far"}

\* int(s): TRUE when it raises ValueError
IntRaises(s) == ~(s = "-1" \/ s = "50000" \/ \E n \in 1 .. Len(Digits) : Digits[n] = s)

\* int(s) for a string that parses
IntOf(s) ==
    IF s = "-1" THEN -1
    ELSE IF s = "50000" THEN 50000
    ELSE (CHOOSE n \in 1 .. Len(Digits) : Digits[n] = s) - 1

\* list[:n] with Python's slice semantics (a negative n counts from the end)
Slice(list, n) ==
    LET len == Len(list)
        stop == IF n >= 0 THEN (IF n < len THEN n ELSE len)
                ELSE (IF len + n > 0 THEN len + n ELSE 0)
    IN  SubSeq(list, 1, stop)

\* the most results pagination can accumulate
MaxResults == MaxPages * PageSize

Threads == 0 .. MaxResults
Workers == 1 .. MaxResults

Period == RATE_LIMIT_PERIOD * TicksPerSecond

VARIABLES
    env,              \* the process environment os.getenv reads (main's part)
    sbenv,            \* SUPABASE_URL / _KEY / _TABLE_NAME, once read
    config,           \* main's config dict
    pc,               \* where the main thread is
    exit,             \* how main ended
    location_coords,
    results,          \* list of place ids
    next_page_token,
    fut,              \* state of the future of results[i]
    rec,              \* the record future i returned
    data,             \* the list get_google_maps_data builds and main holds
    calls,            \* RateLimiter.calls
    clock,            \* time.time()
    rlpc,             \* where each thread is inside wrapped()
    now,              \* wrapped()'s local now
    snap,             \* the list the comprehension of line 34 has built
    wake,             \* when a sleeping thread wakes
    recent,           \* history: recent[k] calls were stamped k ticks ago, k < Period
    geocodeLog,       \* history: the gmaps.geocode calls
    searchLog,        \* history: the gmaps.places calls
    detailCount,      \* history: gmaps.place calls per place id
    extractCount,     \* history: extract_email_from_website calls per place id
    files,            \* history: output files written
    insertLog         \* history: records an insert was attempted for

vars == <<env, sbenv, config, pc, exit, location_coords, results, next_page_token,
          fut, rec, data, calls, clock, rlpc, now, snap, wake, recent,
          geocodeLog, searchLog, detailCount, extractCount, files, insertLog>>

mainVars == <<config, pc, exit, location_coords, results, next_page_token, data>>
poolVars == <<fut, rec>>
rlVars == <<calls, rlpc, now, snap, wake, recent>>
histVars == <<geocodeLog, searchLog, detailCount, extractCount, files, insertLog>>

----------------------------------------------------------------------------
(* main: configuration *)

Required == {"GOOGLE_MAPS_API_KEY", "SEARCH_LOCATION", "SEARCH_QUERY"}

Environments ==
    [GOOGLE_MAPS_API_KEY : {None, "key"},
     SEARCH_LOCATION : {None, "Springfield", "40.0,-73.0"},
     SEARCH_QUERY : {None, "cafes"},
     NUM_RESULTS : NumStrings,
     SEARCH_RADIUS : RadiusStrings,
     OUTPUT_CSV : {"true", "false"},
     OUTPUT_JSON : {"true", "false"},
     USE_SUPABASE : {"true", "false"}]

NoConfig ==
    [GOOGLE_MAPS_API_KEY |-> None, SEARCH_LOCATION |-> None, SEARCH_QUERY |-> None,
     NUM_RESULTS |-> 0, SEARCH_RADIUS |-> 0,
     OUTPUT_CSV |-> FALSE, OUTPUT_JSON |-> FALSE, USE_SUPABASE |-> FALSE]

\* a variant that tests for the empty string, not for None
missing_config_empty(e) == {k \in Required : e[k] = ""}

\* the keys of config whose value is None
missing_config(e) == {k \in Required : e[k] = None}

\* config after the int() conversions
ConfigOf(e) ==
    [GOOGLE_MAPS_API_KEY |-> e.GOOGLE_MAPS_API_KEY,
     SEARCH_LOCATION |-> e.SEARCH_LOCATION,
     SEARCH_QUERY |-> e.SEARCH_QUERY,
     NUM_RESULTS |-> IntOf(e.NUM_RESULTS),
     SEARCH_RADIUS |-> IntOf(e.SEARCH_RADIUS),
     OUTPUT_CSV |-> (e.OUTPUT_CSV = "true"),
     OUTPUT_JSON |-> (e.OUTPUT_JSON = "true"),
     USE_SUPABASE |-> (e.USE_SUPABASE = "true")]

NoSb == [SUPABASE_URL |-> "?", SUPABASE_KEY |-> "?", SUPABASE_TABLE_NAME |-> "?"]

Init ==
    /\ env \in Environments
    /\ sbenv = NoSb
    /\ config = NoConfig
    /\ pc = "start"
    /\ exit = "running"
    /\ location_coords = [kind |-> "none", text |-> "", via |-> "none"]
    /\ results = <<>>
    /\ next_page_token = None
    /\ fut = [i \in Workers |-> "none"]
    /\ rec = [i \in Workers |-> [place_id |-> 0, Website |-> None, Email |-> None]]
    /\ data = <<>>
    /\ calls = <<>>
    /\ clock = 0
    /\ rlpc = [t \in Threads |-> "idle"]
    /\ now = [t \in Threads |-> 0]
    /\ snap = [t \in Threads |-> <<>>]
    /\ wake = [t \in Threads |-> 0]
    /\ recent = [k \in 0 .. Period - 1 |-> 0]
    /\ geocodeLog = <<>>
    /\ searchLog = <<>>
    /\ detailCount = [i \in Workers |-> 0]
    /\ extractCount = [i \in Workers |-> 0]
    /\ files = {}
    /\ insertLog = <<>>

\* main returns
Return(how) == pc' = "done" /\ exit' = how

\* lines 193-199
MainMissingConfig ==
    /\ pc = "start"
    /\ missing_config(env) # {}
    /\ Return("missing_config")
    /\ UNCHANGED <<env, sbenv, config, location_coords, results, next_page_token,
                   data, clock>>
    /\ UNCHANGED <<poolVars, rlVars, histVars>>

\* lines 202-207
MainBadNumber ==
    /\ pc = "start"
    /\ missing_config(env) = {}
    /\ (IntRaises(env.NUM_RESULTS) \/ IntRaises(env.SEARCH_RADIUS))
    /\ Return("bad_number")
    /\ UNCHANGED <<env, sbenv, config, location_coords, results, next_page_token,
                   data, clock>>
    /\ UNCHANGED <<poolVars, rlVars, histVars>>

\* lines 180-218: the configuration is accepted and get_google_maps_data is called
MainConfigured ==
    /\ pc = "start"
    /\ missing_config(env) = {}
    /\ ~IntRaises(env.NUM_RESULTS)
    /\ ~IntRaises(env.SEARCH_RADIUS)
    /\ config' = ConfigOf(env)
    /\ pc' = "resolve"
    /\ UNCHANGED <<env, sbenv, exit, location_coords, results, next_page_token,
                   data, clock>>
    /\ UNCHANGED <<poolVars, rlVars, histVars>>

----------------------------------------------------------------------------
(* RateLimiter.__call__.wrapped, lines 32-40, as run by thread t.  rlpc[t]
   walks idle -> now -> read -> write -> check -> (index -> (sleep)) ->
   append -> call; "raised" when line 36 raises IndexError. *)

\* a thread enters rate_limited_api_call
Enter(t) == rlpc' = [rlpc EXCEPT ![t] = "now"]

\* a thread leaves wrapped(): its locals are dead
Leave(t) ==
    /\ rlpc' = [rlpc EXCEPT ![t] = "idle"]
    /\ now' = [now EXCEPT ![t] = 0]

\* the timestamps of list younger than the period at time n (line 34's filter)
Pruned(list, n) == SelectSeq(list, LAMBDA x : n - x < Period)

\* line 33: now = time.time()
RLNow(t) ==
    /\ rlpc[t] = "now"
    /\ now' = [now EXCEPT ![t] = clock]
    /\ rlpc' = [rlpc EXCEPT ![t] = "read"]
    /\ UNCHANGED <<env, sbenv, mainVars, poolVars, histVars, calls, snap, wake,
                   recent, clock>>

\* line 34, right-hand side: the comprehension reads self.calls
RLPruneRead(t) ==
    /\ rlpc[t] = "read"
    /\ snap' = [snap EXCEPT ![t] = Pruned(calls, now[t])]
    /\ rlpc' = [rlpc EXCEPT ![t] = "write"]
    /\ UNCHANGED <<env, sbenv, mainVars, poolVars, histVars, calls, now, wake,
                   recent, clock>>

\* line 34, the assignment: self.calls is rebound to the new list
RLPruneWrite(t) ==
    /\ rlpc[t] = "write"
    /\ calls' = snap[t]
    /\ snap' = [snap EXCEPT ![t] = <<>>]
    /\ rlpc' = [rlpc EXCEPT ![t] = "check"]
    /\ UNCHANGED <<env, sbenv, mainVars, poolVars, histVars, now, wake, recent,
                   clock>>

\* a test that lets one call too many through
RLCheck_gt(t) ==
    /\ rlpc[t] = "check"
    /\ rlpc' = [rlpc EXCEPT ![t] =
                   IF Len(calls) > RATE_LIMIT THEN "index" ELSE "append"]
    /\ UNCHANGED <<env, sbenv, mainVars, poolVars, histVars, calls, now, snap,
                   wake, recent, clock>>

\* line 35: if len(self.calls) >= self.max_calls
RLCheck(t) ==
    /\ rlpc[t] = "check"
    /\ rlpc' = [rlpc EXCEPT ![t] =
                   IF Len(calls) >= RATE_LIMIT THEN "index" ELSE "append"]
    /\ UNCHANGED <<env, sbenv, mainVars, poolVars, histVars, calls, now, snap,
                   wake, recent, clock>>

\* line 36: sleep_time, from the self.calls[0] of this moment
sleep_time(t) == Period - (now[t] - calls[1])

\* lines 36-38: self.calls[0] is read (IndexError on an empty list) and the
\* thread goes to sleep when sleep_time > 0
RLSleepTime(t) ==
    /\ rlpc[t] = "index"
    /\ IF calls = <<>>
         THEN /\ rlpc' = [rlpc EXCEPT ![t] = "raised"]
              /\ wake' = wake
         ELSE IF sleep_time(t) > 0
         THEN /\ rlpc' = [rlpc EXCEPT ![t] = "sleep"]
              /\ wake' = [wake EXCEPT ![t] = clock + sleep_time(t)]
         ELSE /\ rlpc' = [rlpc EXCEPT ![t] = "append"]
              /\ wake' = wake
    /\ UNCHANGED <<env, sbenv, mainVars, poolVars, histVars, calls, now, snap,
                   recent, clock>>

\* line 38: time.sleep returns once sleep_time has passed
RLWake(t) ==
    /\ rlpc[t] = "sleep"
    /\ clock >= wake[t]
    /\ rlpc' = [rlpc EXCEPT ![t] = "append"]
    /\ wake' = [wake EXCEPT ![t] = 0]
    /\ UNCHANGED <<env, sbenv, mainVars, poolVars, histVars, calls, now, snap,
                   recent, clock>>

\* line 39: self.calls.append(time.time()); the call is dispatched next
RLAppend(t) ==
    /\ rlpc[t] = "append"
    /\ calls' = Append(calls, clock)
    /\ recent' = [recent EXCEPT ![0] = @ + 1]
    /\ rlpc' = [rlpc EXCEPT ![t] = "call"]
    /\ UNCHANGED <<env, sbenv, mainVars, poolVars, histVars, now, snap, wake,
                   clock>>

\* some thread is about to read the clock or is waiting for it
ClockObserved == pc = "page_delay" \/ \E t \in Threads : rlpc[t] # "idle"

\* time passes; the clock is advanced only while some thread can observe it
Tick ==
    /\ clock < MaxTime
    /\ ClockObserved
    /\ clock' = clock + 1
    /\ recent' = [k \in 0 .. Period - 1 |-> IF k = 0 THEN 0 ELSE recent[k - 1]]
    /\ UNCHANGED <<env, sbenv, mainVars, poolVars, histVars, calls, rlpc, now,
                   snap, wake>>

RateLimiterStep ==
    \E t \in Threads :
        \/ RLNow(t)
        \/ RLPruneRead(t)
        \/ RLPruneWrite(t)
        \/ RLCheck(t)
        \/ RLSleepTime(t)
        \/ RLWake(t)
        \/ RLAppend(t)

----------------------------------------------------------------------------
(* get_location_coordinates, lines 82-99, and its caller's handler, 105-109 *)

\* what main passes as location: the string of the environment, as it is
LocationArg == [kind |-> "str", text |-> config.SEARCH_LOCATION, via |-> "config"]

NoCoords == [kind |-> "none", text |-> "", via |-> "none"]

\* isinstance(location, tuple) and len(location) == 2
IsCoordinatePair(location) == location.kind = "tuple"

\* the (lat, lng) the geocoder answered for a location string
Geocoded(location) == [kind |-> "tuple", text |-> location.text, via |-> "geocoder"]

\* lines 84-89: a coordinate pair is returned as it is; anything else goes to
\* gmaps.geocode through the rate limiter
ResolveLocation ==
    /\ pc = "resolve"
    /\ IF IsCoordinatePair(LocationArg)
         THEN /\ location_coords' = LocationArg
              /\ pc' = "loop"
              /\ rlpc' = rlpc
         ELSE /\ pc' = "geocode"
              /\ Enter(0)
              /\ location_coords' = location_coords
    /\ UNCHANGED <<env, sbenv, config, exit, results, next_page_token, data,
                   poolVars, histVars, calls, now, snap, wake, recent, clock>>

\* lines 89-94: the geocoder has a match; lines 111-112 follow
GeocodeFound ==
    /\ pc = "geocode"
    /\ rlpc[0] = "call"
    /\ geocodeLog' = Append(geocodeLog, [location |-> LocationArg, answer |-> "match"])
    /\ location_coords' = Geocoded(LocationArg)
    /\ pc' = "loop"
    /\ Leave(0)
    /\ UNCHANGED <<env, sbenv, config, exit, results, next_page_token, data,
                   poolVars, calls, snap, wake, recent, clock,
                   searchLog, detailCount, extractCount, files, insertLog>>

\* a variant whose handler of line 107 logs and goes on to the search
GeocodeFails_continues ==
    /\ pc = "geocode"
    /\ rlpc[0] = "call"
    /\ \E answer \in {"no_match", "raised"} :
          geocodeLog' = Append(geocodeLog, [location |-> LocationArg, answer |-> answer])
    /\ pc' = "loop"
    /\ Leave(0)
    /\ UNCHANGED <<env, sbenv, config, exit, results, next_page_token, data,
                   location_coords, poolVars, calls, snap, wake, recent, clock,
                   searchLog, detailCount, extractCount, files, insertLog>>

\* lines 95-99 and 107-109: no match (ValueError) or the call raises; the
\* orchestrator logs it and returns []
GeocodeFails ==
    /\ pc = "geocode"
    /\ rlpc[0] = "call"
    /\ \E answer \in {"no_match", "raised"} :
          geocodeLog' = Append(geocodeLog, [location |-> LocationArg, answer |-> answer])
    /\ data' = <<>>
    /\ pc' = "returned"
    /\ Leave(0)
    /\ UNCHANGED <<env, sbenv, config, exit, results, next_page_token,
                   location_coords, poolVars, calls, snap, wake, recent, clock,
                   searchLog, detailCount, extractCount, files, insertLog>>

----------------------------------------------------------------------------
(* get_google_maps_data, lines 111-147 *)

\* the place ids a page of k results adds: the provider's next k places
PageOf(k) == [j \in 1 .. k |-> Len(results) + j]

\* a loop that goes on for as long as there is a token, whatever was
\* accumulated
LoopTest_nocap ==
    /\ pc = "loop"
    /\ IF Len(results) < config.NUM_RESULTS \/ Truthy(next_page_token)
         THEN IF Truthy(next_page_token)
                THEN /\ pc' = "page_delay"
                     /\ wake' = [wake EXCEPT ![0] =
                                    clock + PAGE_TOKEN_DELAY * TicksPerSecond]
                     /\ rlpc' = rlpc
                ELSE /\ pc' = "search"
                     /\ Enter(0)
                     /\ wake' = wake
         ELSE /\ pc' = "truncate"
              /\ rlpc' = rlpc
              /\ wake' = wake
    /\ UNCHANGED <<env, sbenv, config, exit, location_coords, results,
                   next_page_token, data, poolVars, histVars, calls, now, snap,
                   recent, clock>>

\* line 114 with lines 117-121: the loop test, then either the 2 s wait of a
\* call that carries a page token, or the first call
LoopTest ==
    /\ pc = "loop"
    /\ IF Len(results) < config.NUM_RESULTS
         THEN IF Truthy(next_page_token)
                THEN /\ pc' = "page_delay"
                     /\ wake' = [wake EXCEPT ![0] =
                                    clock + PAGE_TOKEN_DELAY * TicksPerSecond]
                     /\ rlpc' = rlpc
                ELSE /\ pc' = "search"
                     /\ Enter(0)
                     /\ wake' = wake
         ELSE /\ pc' = "truncate"
              /\ rlpc' = rlpc
              /\ wake' = wake
    /\ UNCHANGED <<env, sbenv, config, exit, location_coords, results,
                   next_page_token, data, poolVars, histVars, calls, now, snap,
                   recent, clock>>

\* a call with a page token that does not wait
PageDelay_nowait ==
    /\ pc = "page_delay"
    /\ pc' = "search"
    /\ Enter(0)
    /\ wake' = [wake EXCEPT ![0] = 0]
    /\ UNCHANGED <<env, sbenv, config, exit, location_coords, results,
                   next_page_token, data, poolVars, histVars, calls, now, snap,
                   recent, clock>>

\* lines 118-119: time.sleep(2) returns and the call enters the rate limiter
PageDelay ==
    /\ pc = "page_delay"
    /\ clock >= wake[0]
    /\ pc' = "search"
    /\ Enter(0)
    /\ wake' = [wake EXCEPT ![0] = 0]
    /\ UNCHANGED <<env, sbenv, config, exit, location_coords, results,
                   next_page_token, data, poolVars, histVars, calls, now, snap,
                   recent, clock>>

\* a gmaps.places call: what it was called with, what it answered, whether
\* the answer carried a next_page_token and, if so, when it was received
SearchCall(answer, count, more) ==
    [coords |-> location_coords, page_token |-> next_page_token,
     answer |-> answer, count |-> count, more |-> more,
     token_at |-> IF more THEN clock ELSE 0]

\* lines 119-130: the provider answers a page of k results, with a token or not
SearchPage ==
    /\ pc = "search"
    /\ rlpc[0] = "call"
    /\ \E k \in 0 .. PageSize :
       \E more \in (IF Len(searchLog) + 1 < MaxPages THEN BOOLEAN ELSE {FALSE}) :
          /\ results' = results \o PageOf(k)
          /\ next_page_token' = IF more THEN "token" ELSE None
          /\ pc' = IF more THEN "loop" ELSE "truncate"
          /\ searchLog' = Append(searchLog, SearchCall("page", k, more))
    /\ Leave(0)
    /\ UNCHANGED <<env, sbenv, config, exit, location_coords, data, poolVars,
                   calls, snap, wake, recent, clock,
                   geocodeLog, detailCount, extractCount, files, insertLog>>

\* a variant whose handler drops what was accumulated
SearchRaises_discards ==
    /\ pc = "search"
    /\ rlpc[0] = "call"
    /\ searchLog' = Append(searchLog, SearchCall("raised", 0, FALSE))
    /\ results' = <<>>
    /\ pc' = "truncate"
    /\ Leave(0)
    /\ UNCHANGED <<env, sbenv, config, exit, location_coords,
                   next_page_token, data, poolVars, calls, snap, wake, recent,
                   clock, geocodeLog, detailCount, extractCount, files, insertLog>>

\* lines 131-133: the search call raises; the loop is left
SearchRaises ==
    /\ pc = "search"
    /\ rlpc[0] = "call"
    /\ searchLog' = Append(searchLog, SearchCall("raised", 0, FALSE))
    /\ pc' = "truncate"
    /\ Leave(0)
    /\ UNCHANGED <<env, sbenv, config, exit, location_coords, results,
                   next_page_token, data, poolVars, calls, snap, wake, recent,
                   clock, geocodeLog, detailCount, extractCount, files, insertLog>>

\* a variant without the truncation
Truncated_none(list, num_results) == list

\* line 135: results = results[:num_results]
Truncated(list, num_results) == Slice(list, num_results)

Truncate ==
    /\ pc = "truncate"
    /\ results' = Truncated(results, config.NUM_RESULTS)
    /\ pc' = "submit"
    /\ UNCHANGED <<env, sbenv, config, exit, location_coords, next_page_token,
                   data, poolVars, histVars, rlVars, clock>>

\* lines 137-139: one future per result, queued in list order; data = []
Submit ==
    /\ pc = "submit"
    /\ fut' = [i \in Workers |-> IF i <= Len(results) THEN "queued" ELSE "none"]
    /\ data' = <<>>
    /\ pc' = "collect"
    /\ UNCHANGED <<env, sbenv, config, exit, location_coords, results,
                   next_page_token, rec, histVars, rlVars, clock>>

Running == {j \in Workers : fut[j] = "running"}

\* a free pool thread takes the oldest queued task and calls get_place_details,
\* which enters rate_limited_api_call (line 59)
WorkerStart(i) ==
    /\ fut[i] = "queued"
    /\ \A j \in Workers : j < i => fut[j] # "queued"
    /\ Cardinality(Running) < MAX_WORKERS
    /\ fut' = [fut EXCEPT ![i] = "running"]
    /\ Enter(i)
    /\ UNCHANGED <<env, sbenv, mainVars, rec, histVars, calls, now, snap, wake,
                   recent, clock>>

\* a variant that calls the extractor whatever the website
WantsEmail_always(website) == TRUE

\* line 63: if website
WantsEmail(website) == Truthy(website)

\* lines 61-80: the record built from the details and the extractor's answer
PlaceRecord(place_id, website, extracted) ==
    [place_id |-> place_id,
     Website |-> website,
     Email |-> IF WantsEmail(website) THEN extracted ELSE None]

\* lines 59-80: gmaps.place answers; extract_email_from_website is called when
\* the website is truthy and answers an address or None
DetailsFetched(i) ==
    /\ fut[i] = "running"
    /\ rlpc[i] = "call"
    /\ detailCount' = [detailCount EXCEPT ![results[i]] = @ + 1]
    /\ \E website \in {None, "", "http://a.example"} :
       \E extracted \in {None, "info@a.example"} :
          /\ rec' = [rec EXCEPT ![i] = PlaceRecord(results[i], website, extracted)]
          /\ extractCount' = [extractCount EXCEPT ![results[i]] =
                                 IF WantsEmail(website) THEN @ + 1 ELSE @]
    /\ fut' = [fut EXCEPT ![i] = "ok"]
    /\ Leave(i)
    /\ UNCHANGED <<env, sbenv, mainVars, calls, snap, wake, recent, clock,
                   geocodeLog, searchLog, files, insertLog>>

\* lines 59-60: gmaps.place raises, or its answer has no 'result'
DetailsFail(i) ==
    /\ fut[i] = "running"
    /\ rlpc[i] = "call"
    /\ detailCount' = [detailCount EXCEPT ![results[i]] = @ + 1]
    /\ fut' = [fut EXCEPT ![i] = "failed"]
    /\ Leave(i)
    /\ UNCHANGED <<env, sbenv, mainVars, rec, calls, snap, wake, recent, clock,
                   geocodeLog, searchLog, extractCount, files, insertLog>>

\* line 36 raised IndexError inside the rate limiter: the task fails
LimiterRaised(i) ==
    /\ fut[i] = "running"
    /\ rlpc[i] = "raised"
    /\ fut' = [fut EXCEPT ![i] = "failed"]
    /\ Leave(i)
    /\ UNCHANGED <<env, sbenv, mainVars, rec, histVars, calls, snap, wake,
                   recent, clock>>

\* a variant whose loop ends at the first failed future
Collect_break(i) ==
    /\ pc = "collect"
    /\ fut[i] \in {"ok", "failed"}
    /\ data' = IF fut[i] = "ok" THEN Append(data, rec[i]) ELSE data
    /\ fut' = [fut EXCEPT ![i] = IF fut[i] = "ok" THEN "got_ok" ELSE "got_failed"]
    /\ pc' = IF fut[i] = "ok" \/ Running # {} THEN pc ELSE "returned"
    /\ UNCHANGED <<env, sbenv, config, exit, location_coords, results,
                   next_page_token, rec, histVars, rlVars, clock>>

\* lines 140-144: as_completed yields a finished future; its record is
\* appended, or its exception logged
Collect(i) ==
    /\ pc = "collect"
    /\ fut[i] \in {"ok", "failed"}
    /\ data' = IF fut[i] = "ok" THEN Append(data, rec[i]) ELSE data
    /\ fut' = [fut EXCEPT ![i] = IF fut[i] = "ok" THEN "got_ok" ELSE "got_failed"]
    /\ UNCHANGED <<env, sbenv, config, pc, exit, location_coords, results,
                   next_page_token, rec, histVars, rlVars, clock>>

\* a return that does not wait for the futures still pending
CollectDone_nowait ==
    /\ pc = "collect"
    /\ pc' = "returned"
    /\ UNCHANGED <<env, sbenv, config, exit, location_coords, results,
                   next_page_token, data, poolVars, histVars, rlVars, clock>>

\* lines 146-147: every future was yielded; data is returned to main
CollectDone ==
    /\ pc = "collect"
    /\ \A i \in Workers : fut[i] \in {"none", "got_ok", "got_failed"}
    /\ pc' = "returned"
    /\ UNCHANGED <<env, sbenv, config, exit, location_coords, results,
                   next_page_token, data, poolVars, histVars, rlVars, clock>>

PoolStep ==
    \E i \in Workers :
        \/ WorkerStart(i)
        \/ DetailsFetched(i)
        \/ DetailsFail(i)
        \/ LimiterRaised(i)
        \/ Collect(i)

----------------------------------------------------------------------------
(* main, lines 226-236, with save_to_file and add_to_supabase *)

\* a variant without the return of line 228
MainNoData_proceeds ==
    /\ pc = "returned"
    /\ data = <<>>
    /\ pc' = "save_csv"
    /\ UNCHANGED <<env, sbenv, config, exit, location_coords, results,
                   next_page_token, data, poolVars, histVars, rlVars, clock>>

\* lines 226-228
MainNoData ==
    /\ pc = "returned"
    /\ data = <<>>
    /\ Return("no_data")
    /\ UNCHANGED <<env, sbenv, config, location_coords, results, next_page_token,
                   data, poolVars, histVars, rlVars, clock>>

\* line 230: save_to_file is called
MainSave ==
    /\ pc = "returned"
    /\ data # <<>>
    /\ pc' = "save_csv"
    /\ UNCHANGED <<env, sbenv, config, exit, location_coords, results,
                   next_page_token, data, poolVars, histVars, rlVars, clock>>

\* lines 150-153: the CSV file is written, or to_csv raises and nothing
\* catches it
SaveCsv ==
    /\ pc = "save_csv"
    /\ IF config.OUTPUT_CSV
         THEN \E written \in BOOLEAN :
                 IF written
                   THEN /\ files' = files \cup {"csv"}
                        /\ pc' = "save_json"
                        /\ exit' = exit
                   ELSE /\ files' = files
                        /\ Return("csv_write_error")
         ELSE /\ files' = files
              /\ pc' = "save_json"
              /\ exit' = exit
    /\ UNCHANGED <<env, sbenv, config, location_coords, results, next_page_token,
                   data, poolVars, rlVars, clock,
                   geocodeLog, searchLog, detailCount, extractCount, insertLog>>

\* lines 155-159: the JSON file is written, or open/json.dump raises
SaveJson ==
    /\ pc = "save_json"
    /\ IF config.OUTPUT_JSON
         THEN \E written \in BOOLEAN :
                 IF written
                   THEN /\ files' = files \cup {"json"}
                        /\ pc' = "sync"
                        /\ exit' = exit
                   ELSE /\ files' = files
                        /\ Return("json_write_error")
         ELSE /\ files' = files
              /\ pc' = "sync"
              /\ exit' = exit
    /\ UNCHANGED <<env, sbenv, config, location_coords, results, next_page_token,
                   data, poolVars, rlVars, clock,
                   geocodeLog, searchLog, detailCount, extractCount, insertLog>>

SupabaseEnvironments ==
    [SUPABASE_URL : {None, "url"},
     SUPABASE_KEY : {None, "secret"},
     SUPABASE_TABLE_NAME : {None, "places"}]

\* a check that forgets the table name
SupabaseConfigured_urlkey(e) ==
    /\ Truthy(e.SUPABASE_URL)
    /\ Truthy(e.SUPABASE_KEY)

\* line 233: all([...]) of the three options
SupabaseConfigured(e) ==
    /\ Truthy(e.SUPABASE_URL)
    /\ Truthy(e.SUPABASE_KEY)
    /\ Truthy(e.SUPABASE_TABLE_NAME)

\* lines 232-236: remote sync is off, skipped for a missing option, or entered
SyncCheck ==
    /\ pc = "sync"
    /\ IF ~config.USE_SUPABASE
         THEN /\ Return("completed")
              /\ sbenv' = sbenv
         ELSE \E e \in SupabaseEnvironments :
                 /\ sbenv' = e
                 /\ IF SupabaseConfigured(e)
                      THEN /\ pc' = "insert"
                           /\ exit' = exit
                      ELSE Return("sync_skipped")
    /\ UNCHANGED <<env, config, location_coords, results, next_page_token, data,
                   poolVars, histVars, rlVars, clock>>

\* an insert loop without the try/except of lines 169-176: a raising insert
\* ends add_to_supabase
Insert_stops ==
    /\ pc = "insert"
    /\ Len(insertLog) < Len(data)
    /\ \E outcome \in {"inserted", "empty", "raised"} :
          /\ insertLog' = Append(insertLog,
                                 [place_id |-> data[Len(insertLog) + 1].place_id,
                                  failed |-> (outcome = "raised")])
          /\ IF outcome = "raised"
               THEN Return("completed")
               ELSE pc' = pc /\ exit' = exit
    /\ UNCHANGED <<env, sbenv, config, location_coords, results,
                   next_page_token, data, poolVars, rlVars, clock,
                   geocodeLog, searchLog, detailCount, extractCount, files>>

\* lines 168-176: the insert of the next record answers, answers nothing or
\* raises; the loop goes on in each case
Insert ==
    /\ pc = "insert"
    /\ Len(insertLog) < Len(data)
    /\ \E outcome \in {"inserted", "empty", "raised"} :
          insertLog' = Append(insertLog,
                              [place_id |-> data[Len(insertLog) + 1].place_id,
                               failed |-> (outcome = "raised")])
    /\ UNCHANGED <<env, sbenv, mainVars, poolVars, rlVars, clock,
                   geocodeLog, searchLog, detailCount, extractCount, files>>

\* add_to_supabase returns, and main with it
SyncDone ==
    /\ pc = "insert"
    /\ Len(insertLog) = Len(data)
    /\ Return("completed")
    /\ UNCHANGED <<env, sbenv, config, location_coords, results, next_page_token,
                   data, poolVars, histVars, rlVars, clock>>

Next ==
    \/ MainMissingConfig
    \/ MainBadNumber
    \/ MainConfigured
    \/ RateLimiterStep
    \/ Tick
    \/ ResolveLocation
    \/ GeocodeFound
    \/ GeocodeFails
    \/ LoopTest
    \/ PageDelay
    \/ SearchPage
    \/ SearchRaises
    \/ Truncate
    \/ Submit
    \/ PoolStep
    \/ CollectDone
    \/ MainNoData
    \/ MainSave
    \/ SaveCsv
    \/ SaveJson
    \/ SyncCheck
    \/ Insert
    \/ SyncDone

Spec == Init /\ [][Next]_vars

----------------------------------------------------------------------------
(* The rate limiter under a single sequential caller: thread 0 calls
   rate_limited_api_call again and again, each call after the one before has
   returned, with any time passing in between. *)

InitSequential ==
    /\ env = [GOOGLE_MAPS_API_KEY |-> "key", SEARCH_LOCATION |-> "Springfield",
              SEARCH_QUERY |-> "cafes", NUM_RESULTS |-> "1",
              SEARCH_RADIUS |-> "50000", OUTPUT_CSV |-> "true",
              OUTPUT_JSON |-> "true", USE_SUPABASE |-> "false"]
    /\ Init

\* lines 43-45: the caller calls rate_limited_api_call
SequentialCall ==
    /\ rlpc[0] = "idle"
    /\ Enter(0)
    /\ UNCHANGED <<env, sbenv, mainVars, poolVars, histVars, calls, now, snap,
                   wake, recent, clock>>

\* line 40: func has answered and wrapped() returns
SequentialReturn ==
    /\ rlpc[0] = "call"
    /\ Leave(0)
    /\ UNCHANGED <<env, sbenv, mainVars, poolVars, histVars, calls, snap,
                   wake, recent, clock>>

NextSequential ==
    \/ SequentialCall
    \/ RateLimiterStep
    \/ Tick
    \/ SequentialReturn

SpecSequential == InitSequential /\ [][NextSequential]_vars

----------------------------------------------------------------------------
(* Properties *)

RECURSIVE SumRecent(_)
SumRecent(k) == IF k < 0 THEN 0 ELSE recent[k] + SumRecent(k - 1)

\* the calls stamped within the last Period ticks, the present one included
DispatchedInWindow == SumRecent(Period - 1)

RECURSIVE SumCounts(_)
SumCounts(log) == IF log = <<>> THEN 0 ELSE Head(log).count + SumCounts(Tail(log))

\* the results all search pages carried together
Accumulated == SumCounts(searchLog)

\* the futures the orchestrator submitted
Dispatched == {i \in Workers : fut[i] # "none"}

\* how many records of data are of this place
RecordsOf(place_id) == Cardinality({n \in 1 .. Len(data) : data[n].place_id = place_id})

\* get_google_maps_data has returned to main
OrchestratorReturned ==
    pc \in {"returned", "save_csv", "save_json", "sync", "insert", "done"}
       /\ exit \notin {"missing_config", "bad_number"}

NoProviderCall ==
    /\ geocodeLog = <<>>
    /\ searchLog = <<>>
    /\ \A i \in Workers : detailCount[i] = 0

NoOutput == files = {} /\ insertLog = <<>>

\* C1: no window of RATE_LIMIT_PERIOD seconds holds more than RATE_LIMIT
\* timestamps of dispatched calls, whatever the interleaving of the threads.
C1_WindowHoldsAtMostLimit == DispatchedInWindow <= RATE_LIMIT

\* C2: the list get_google_maps_data builds, and with it what is written or
\* synced, never holds more records than the cap NUM_RESULTS (none at all for
\* a cap below zero).
C2_RecordCountWithinCap ==
    LET cap == IF config.NUM_RESULTS < 0 THEN 0 ELSE config.NUM_RESULTS
    IN  /\ Len(data) <= cap
        /\ Len(insertLog) <= cap

\* C2: the provider returned more results than the cap and the list returned
\* holds exactly cap records
C2_Witness ==
    /\ pc = "returned"
    /\ Accumulated > config.NUM_RESULTS
    /\ config.NUM_RESULTS > 0
    /\ Len(data) = config.NUM_RESULTS

\* C3: with SEARCH_LOCATION = "40.0,-73.0" no geocoding call is made and every
\* search call is given exactly those coordinates.
C3_CoordinatesUsedVerbatim ==
    config.SEARCH_LOCATION = "40.0,-73.0" =>
        /\ geocodeLog = <<>>
        /\ \A n \in 1 .. Len(searchLog) :
              searchLog[n].coords =
                  [kind |-> "tuple", text |-> "40.0,-73.0", via |-> "config"]

\* a thread has read self.calls (line 34) and not yet appended (line 39)
InLimiterSequence(t) == rlpc[t] \in {"write", "check", "index", "sleep", "append"}

\* C4: the read-prune-append sequence is a critical section: no two threads
\* are inside it at once.
C4_SequenceIsCriticalSection ==
    \A t, u \in Threads : InLimiterSequence(t) /\ InLimiterSequence(u) => t = u

LocationFailed == \E n \in 1 .. Len(geocodeLog) : geocodeLog[n].answer # "match"

\* C5: once location resolution has failed, the run makes no search call and
\* no detail call, writes no file and attempts no insert, and main ends by
\* the return of line 228.
C5_LocationFailureAbortsRun ==
    LocationFailed =>
        /\ searchLog = <<>>
        /\ \A i \in Workers : detailCount[i] = 0
        /\ NoOutput
        /\ pc \in {"returned", "done"}
        /\ pc = "done" => exit = "no_data"

\* C5: the geocoder raised and main has returned
C5_Witness ==
    /\ pc = "done"
    /\ LocationFailed
    /\ geocodeLog[1].answer = "raised"

\* C6: the extractor is invoked for a place only if its details carry a
\* non-empty website, and Email is non-null only in a record whose Website is
\* non-empty.
C6_EmailOnlyWithWebsite ==
    /\ \A i \in Workers :
          /\ rec[i].Email # None => Truthy(rec[i].Website)
          /\ extractCount[i] > 0 =>
                \E j \in Workers : rec[j].place_id = i /\ Truthy(rec[j].Website)
    /\ \A n \in 1 .. Len(data) : data[n].Email # None => Truthy(data[n].Website)

\* C6: one place with an empty website and no email, one with a website and an
\* address found on it
C6_Witness ==
    /\ \E n \in 1 .. Len(data) :
          data[n].Website = "" /\ data[n].Email = None
             /\ extractCount[data[n].place_id] = 0
    /\ \E n \in 1 .. Len(data) :
          data[n].Website = "http://a.example" /\ data[n].Email = "info@a.example"
             /\ extractCount[data[n].place_id] = 1

\* C7: a failing enrichment neither cancels nor blocks its siblings: data
\* holds exactly one record of every future that was yielded with a result
\* and none of any other, and when the orchestrator returns every dispatched
\* future has run to its result or its failure and was yielded.
C7_FailuresAreIndependent ==
    /\ \A i \in Dispatched :
          RecordsOf(results[i]) = IF fut[i] = "got_ok" THEN 1 ELSE 0
    /\ Len(data) = Cardinality({i \in Dispatched : fut[i] = "got_ok"})
    /\ OrchestratorReturned =>
          \A i \in Dispatched : fut[i] \in {"got_ok", "got_failed"}

\* C7: the first task failed, a later one succeeded, and the list returned
\* holds the record of the later one
C7_Witness ==
    /\ pc = "returned"
    /\ fut[1] = "got_failed"
    /\ fut[2] = "got_ok"
    /\ Len(data) = 1
    /\ data[1].place_id = results[2]

SearchFailed == \E n \in 1 .. Len(searchLog) : searchLog[n].answer = "raised"

\* C8: a search call that raises is the last search call, and the results
\* the earlier pages carried are all dispatched for enrichment.
C8_SearchErrorKeepsPartialResults ==
    SearchFailed =>
        /\ searchLog[Len(searchLog)].answer = "raised"
        /\ \A n \in 1 .. Len(searchLog) - 1 : searchLog[n].answer = "page"
        /\ pc \notin {"loop", "page_delay", "search"}
        /\ pc \notin {"truncate", "submit"} =>
              /\ Dispatched = 1 .. Accumulated
              /\ \A i \in Dispatched : results[i] = i

\* C8: the second page raised after a first page with results, and those
\* results are being enriched
C8_Witness ==
    /\ Len(searchLog) = 2
    /\ searchLog[2].answer = "raised"
    /\ searchLog[1].count > 0
    /\ pc = "collect"
    /\ \E i \in Dispatched : fut[i] = "ok"

InvalidConfiguration ==
    \/ \E k \in Required : env[k] = None
    \/ IntRaises(env.NUM_RESULTS)
    \/ IntRaises(env.SEARCH_RADIUS)

\* C9: with a required option missing, or NUM_RESULTS or SEARCH_RADIUS not an
\* integer, main returns without a provider call, a file or an insert.
C9_InvalidConfigurationNoSideEffects ==
    InvalidConfiguration =>
        /\ NoProviderCall
        /\ \A t \in Threads : rlpc[t] = "idle"
        /\ calls = <<>>
        /\ NoOutput
        /\ pc \in {"start", "done"}
        /\ pc = "done" => exit \in {"missing_config", "bad_number"}

\* C9: main has returned for a number that does not parse
C9_Witness ==
    /\ pc = "done"
    /\ exit = "bad_number"
    /\ env.NUM_RESULTS = "many"

\* C10: when the list the orchestrator returned is empty, main returns before
\* save_to_file and add_to_supabase: no file, no insert.
C10_EmptyListNoOutput ==
    (OrchestratorReturned /\ data = <<>>) =>
        /\ NoOutput
        /\ pc \in {"returned", "done"}
        /\ pc = "done" => exit = "no_data"

\* C10: every enrichment failed and main has returned
C10_Witness ==
    /\ pc = "done"
    /\ exit = "no_data"
    /\ Dispatched # {}
    /\ \A i \in Dispatched : fut[i] = "got_failed"

\* the files save_to_file writes when no write raises (lines 150, 155)
SelectedFiles ==
    (IF config.OUTPUT_CSV THEN {"csv"} ELSE {}) \cup
    (IF config.OUTPUT_JSON THEN {"json"} ELSE {})

\* one of the three options read at line 233 is unset in the environment
SupabaseOptionUnset ==
    \E k \in {"SUPABASE_URL", "SUPABASE_KEY", "SUPABASE_TABLE_NAME"} :
        sbenv[k] = None

\* C11: with USE_SUPABASE on and one of SUPABASE_URL, SUPABASE_KEY,
\* SUPABASE_TABLE_NAME unset, no insert is attempted and the run ends with
\* exactly the files OUTPUT_CSV / OUTPUT_JSON select written.
C11_UnconfiguredSyncSkipped ==
    (config.USE_SUPABASE /\ sbenv # NoSb /\ SupabaseOptionUnset) =>
        /\ insertLog = <<>>
        /\ pc = "done"
        /\ exit = "sync_skipped"
        /\ files = SelectedFiles

C11_Witness ==
    /\ config.USE_SUPABASE
    /\ sbenv # NoSb
    /\ Truthy(sbenv.SUPABASE_URL)
    /\ Truthy(sbenv.SUPABASE_KEY)
    /\ ~Truthy(sbenv.SUPABASE_TABLE_NAME)
    /\ exit = "sync_skipped"
    /\ files = {"csv", "json"}
    /\ insertLog = <<>>

\* C12: the inserts attempted so far are, in order, those of the first
\* records of the list, one each, whatever inserts raised; when remote sync
\* has returned an insert was attempted for every record of the list.
C12_InsertFailureDoesNotStopSync ==
    /\ Len(insertLog) <= Len(data)
    /\ \A i \in 1 .. Len(insertLog) : insertLog[i].place_id = data[i].place_id
    /\ (pc = "done" /\ sbenv # NoSb /\ SupabaseConfigured(sbenv)) =>
           Len(insertLog) = Len(data)

C12_Witness ==
    /\ pc = "done"
    /\ exit = "completed"
    /\ Len(data) = 2
    /\ Len(insertLog) = 2
    /\ insertLog[1].failed
    /\ ~insertLog[2].failed

\* C13: a run in which writing the CSV file raised still writes the JSON
\* file when OUTPUT_JSON is on and still attempts the remote inserts when
\* USE_SUPABASE is on.
C13_CsvFailureIsLocal ==
    (pc = "done" /\ exit = "csv_write_error") =>
        /\ config.OUTPUT_JSON => "json" \in files
        /\ config.USE_SUPABASE => sbenv # NoSb

\* the number of results accumulated through search call n
AccThrough(n) == SumCounts(SubSeq(searchLog, 1, n))

\* search call n returned without error, carried a token, and left the
\* accumulated count below the cap
PageContinues(n) ==
    /\ searchLog[n].answer = "page"
    /\ searchLog[n].more
    /\ AccThrough(n) < config.NUM_RESULTS

\* the pagination loop of lines 114-133 has been left
PaginationEnded ==
    pc \in {"truncate", "submit", "collect", "returned", "save_csv",
            "save_json", "sync", "insert", "done"}

\* C14: a search call that was followed by another one, or whose successor
\* is being requested, returned without error, carried a token and left the
\* accumulated count below the cap; the last search call of an ended
\* pagination did not.
C14_NextPageIffTokenAndBelowCap ==
    /\ \A n \in 1 .. Len(searchLog) - 1 : PageContinues(n)
    /\ (pc \in {"page_delay", "search"} /\ searchLog # <<>>) =>
           PageContinues(Len(searchLog))
    /\ (PaginationEnded /\ searchLog # <<>>) =>
           ~PageContinues(Len(searchLog))

\* a token page below the cap was followed by a second call, whose page
\* carried no token and took the accumulated count past the cap
C14_Witness ==
    /\ PaginationEnded
    /\ Len(searchLog) = 2
    /\ config.NUM_RESULTS = 2
    /\ searchLog[1].more
    /\ searchLog[1].count = 1
    /\ searchLog[2].answer = "page"
    /\ AccThrough(2) = 3

\* a gmaps.places call was made or is on its way
SearchStarted ==
    searchLog # <<>> \/ pc \in {"page_delay", "search"}

\* a get_place_details task was submitted to the pool
EnrichmentStarted ==
    Dispatched # {} \/ \E id \in 1 .. MaxResults : detailCount[id] > 0

\* every submitted task has completed or failed and was collected
EnrichmentOver ==
    /\ \A i \in Workers : fut[i] \in {"none", "got_ok", "got_failed"}
    /\ \A i \in Workers : rlpc[i] = "idle"

\* save_to_file was called
PersistenceStarted ==
    files # {} \/ pc \in {"save_csv", "save_json", "sync", "insert"}
             \/ exit \in {"csv_write_error", "json_write_error",
                           "sync_skipped", "completed"}

\* the SUPABASE_* options were read, or an insert was attempted
RemoteSyncStarted ==
    sbenv # NoSb \/ pc = "insert" \/ insertLog # <<>>

\* C15: a search call is made only with the location resolved; a task is
\* dispatched only with the pagination ended, the results truncated to the
\* cap and the main thread out of the provider; Persistence starts only with
\* every task completed or failed; Remote Sync starts only with Persistence
\* returned.
C15_StagesInOrder ==
    /\ SearchStarted =>
           /\ location_coords # NoCoords
           /\ pc \notin {"start", "resolve", "geocode"}
    /\ EnrichmentStarted =>
           /\ PaginationEnded
           /\ pc \notin {"truncate", "submit"}
           /\ rlpc[0] = "idle"
           /\ Len(results) <= config.NUM_RESULTS
    /\ PersistenceStarted => EnrichmentOver
    /\ RemoteSyncStarted =>
           /\ files = SelectedFiles
           /\ pc \in {"insert", "done"}

C15_Witness ==
    /\ pc = "insert"
    /\ insertLog # <<>>
    /\ files = {"csv", "json"}
    /\ Len(searchLog) = 2
    /\ geocodeLog # <<>>
    /\ fut[1] = "got_failed"
    /\ fut[2] = "got_ok"

\* the call that is entering or inside the rate limiter carries a token, and
\* the 2 s since that token was received have passed
TokenCallWaited ==
    (pc = "search" /\ Truthy(next_page_token)) =>
        /\ searchLog # <<>>
        /\ searchLog[Len(searchLog)].more
        /\ clock >= searchLog[Len(searchLog)].token_at
                        + PAGE_TOKEN_DELAY * TicksPerSecond

\* a step that calls gmaps.geocode, gmaps.places or gmaps.place is taken by
\* a thread that is inside the rate limiter, past the append of line 39
ProviderCallThroughLimiter ==
    /\ geocodeLog' # geocodeLog => rlpc[0] = "call"
    /\ searchLog' # searchLog => rlpc[0] = "call"
    /\ \A id \in 1 .. MaxResults :
          detailCount'[id] # detailCount[id] =>
              \E i \in 1 .. Len(results) :
                  results[i] = id /\ rlpc[i] = "call"

\* C16: a search call that carries a token is made no sooner than 2 s
\* after the token was received, and every geocode, search and detail call
\* is made from inside the rate limiter.
C16_TokenDelayAndRateLimitedDispatch ==
    []TokenCallWaited /\ [][ProviderCallThroughLimiter]_vars

C16_Witness ==
    /\ pc = "search"
    /\ Truthy(next_page_token)
    /\ rlpc[0] = "call"
    /\ searchLog[1].more
    /\ searchLog[1].token_at = 0
    /\ clock = PAGE_TOKEN_DELAY * TicksPerSecond

\* C17: with one sequential caller, the caller computes a sleep time or
\* sleeps only when N or more timestamps remained after the prune (with fewer
\* it goes from the test straight to the dispatch); when it sleeps it wakes
\* no earlier than the oldest timestamp leaves the window and no later than
\* P from now; and with N or more timestamps in the log it appends and
\* dispatches only once the oldest has left the window.
C17_SequentialCallerBlocksUntilWindowFrees ==
    /\ rlpc[0] # "raised"
    /\ rlpc[0] \in {"index", "sleep"} => Len(calls) >= RATE_LIMIT
    /\ rlpc[0] = "sleep" =>
           /\ wake[0] >= calls[1] + Period
           /\ wake[0] - clock <= Period
    /\ (rlpc[0] = "append" /\ Len(calls) >= RATE_LIMIT) =>
           clock >= calls[1] + Period
    /\ (rlpc[0] = "call" /\ Len(calls) > RATE_LIMIT) =>
           calls[Len(calls)] >= calls[1] + Period

\* the caller found N timestamps in the window, slept and was dispatched
\* at the instant the oldest left the window
C17_Witness ==
    /\ rlpc[0] = "call"
    /\ Len(calls) = RATE_LIMIT + 1
    /\ calls[Len(calls)] = calls[1] + Period

\* C18: the pagination loop has a variant: every search call that is
\* followed by another one added a result, so the number of results missing
\* to the cap decreases from call to call and at most max(1, cap) search
\* calls are made.
C18_SearchCallsBoundedByCap ==
    /\ \A n \in 1 .. Len(searchLog) - 1 : AccThrough(n) > AccThrough(n - 1)
    /\ Len(searchLog) <= (IF config.NUM_RESULTS > 1 THEN config.NUM_RESULTS
                                                     ELSE 1)

\* the number of results the truncation of line 135 leaves
CappedCount ==
    IF Accumulated < config.NUM_RESULTS THEN Accumulated
    ELSE IF config.NUM_RESULTS > 0 THEN config.NUM_RESULTS ELSE 0

\* gmaps.place was called at most once per result, and for no result beyond
\* the truncated list
DetailCallsWithinCap ==
    \A id \in 1 .. MaxResults :
        detailCount[id] > 0 => (id <= CappedCount /\ detailCount[id] = 1)

\* C19: gmaps.place is called at most once per result and for no result
\* beyond the first min(cap, accumulated), which are places
\* 1 .. min(cap, accumulated) in page order; once the orchestrator has
\* returned it was called exactly once for each of them.
C19_DetailCalledOncePerCappedResult ==
    /\ DetailCallsWithinCap
    /\ OrchestratorReturned =>
          \A id \in 1 .. CappedCount : detailCount[id] = 1

\* the timestamps of self.calls that are k ticks old
LoggedAt(k) == {i \in 1 .. Len(calls) : calls[i] = clock - k}

\* C20: every timestamp appended less than a period ago is still in
\* self.calls: for each age k below the period, the log holds at least as
\* many timestamps of that age as calls were stamped then.
C20_FreshTimestampsStayInLog ==
    \A k \in 0 .. Period - 1 : Cardinality(LoggedAt(k)) >= recent[k]

====
